---- MODULE Spec2Model ----
(***************************************************************************)
(* A model of the document post-processing pipeline of md2docx.py: the     *)
(* table classifier (class CS), the table styler, the image resizer, the   *)
(* section manager and DocxProcessor.post_process_docx.                    *)
(*                                                                         *)
(* Text is modelled as a sequence of one-character strings, so that        *)
(* str.strip, str.lower, the substring test and the two regular-expression *)
(* searches are computed and not assumed.  A Python value handed to a      *)
(* classifier predicate is a record [t |-> type tag, v |-> payload].       *)
(***************************************************************************)
EXTENDS Integers, Sequences, FiniteSets, TLC

VARIABLES
    pc,            \* position of the running call: the next call of post_process_docx, "idle",
                   \* "done" (saved) or "aborted" (an exception reached its except clause);
                   \* in main "converted" or "not_converted" after convert_md_to_docx,
                   \* "main_raised" when an exception has ended main
    sections,      \* the document in memory: its sections,
    body,          \*   the children of its body (paragraphs and tables),
    shapes,        \*   its inline shapes,
    styles,        \*   its named styles
    disk,          \* the document stored at doc_path
    loaded,        \* the document as the running call loaded it
    runs,          \* calls of post_process_docx begun on doc_path
    errors,        \* the handlers that logged an error in the running call (in main: since
                   \* the file was taken up)
    exc,           \* the exception caught by post_process_docx in the running call, or "none"
    files_converted, \* main: the flag set after a call of post_process_docx has returned
    caller,        \* who made the running call of post_process_docx: "main", or "direct"
                   \* for a caller that hands it a path itself; "none" between calls
    header_texts,  \* SpecCS: the value handed to the CS predicates
    results,       \* SpecCS: outcome of each CS.is_*_table call made so far
    category       \* SpecCS: outcome of the if/elif chain of apply_custom_styles

vars ==
    <<pc, sections, body, shapes, styles, disk, loaded, runs, errors, exc, files_converted,
      caller, header_texts, results, category>>

(***************************************************************************)
(* Python values                                                           *)
(***************************************************************************)
PyStr(chars) == [t |-> "str", v |-> chars]
PyInt(n) == [t |-> "int", v |-> <<n>>]
PyList(items) == [t |-> "list", v |-> items]
PyNone == [t |-> "None", v |-> <<>>]

\* a list of str built from a sequence of character sequences
L(seq) == PyList([i \in 1..Len(seq) |-> PyStr(seq[i])])

RECURSIVE PyEq(_, _)
\* Python ==  on the modelled values: values of different types are unequal,
\* lists are equal when they have the same length and equal items.
PyEq(a, b) ==
    IF a.t # b.t THEN FALSE
    ELSE IF a.t = "list"
         THEN /\ Len(a.v) = Len(b.v)
              /\ \A i \in 1..Len(a.v) : PyEq(a.v[i], b.v[i])
         ELSE a.v = b.v

\* Python  x in [e1, e2, ...]
PyIn(x, lists) == \E i \in 1..Len(lists) : PyEq(x, lists[i])

IsListOfStr(x) == x.t = "list" /\ \A i \in 1..Len(x.v) : x.v[i].t = "str"

(***************************************************************************)
(* Text                                                                    *)
(***************************************************************************)
\* the characters of str.isspace(), which are those of \s in a str pattern,
\* among the first 256 code points: \t \n \x0b \f \r \x1c-\x1f, the space,
\* \x85 and \xa0
Whitespace ==
    {" ", "\t", "\n", "\r", "\f", "", "", "", "", "", "", " "}

\* the capitals below U+0100 and what str.lower() makes of each
UpperCase ==
    <<"A", "B", "C", "D", "E", "F", "G", "H", "I", "J", "K", "L", "M",
      "N", "O", "P", "Q", "R", "S", "T", "U", "V", "W", "X", "Y", "Z",
      "À", "Á", "Â", "Ã", "Ä", "Å", "Æ", "Ç", "È", "É", "Ê", "Ë", "Ì",
      "Í", "Î", "Ï", "Ð", "Ñ", "Ò", "Ó", "Ô", "Õ", "Ö", "Ø", "Ù", "Ú",
      "Û", "Ü", "Ý", "Þ">>
LowerCase ==
    <<"a", "b", "c", "d", "e", "f", "g", "h", "i", "j", "k", "l", "m",
      "n", "o", "p", "q", "r", "s", "t", "u", "v", "w", "x", "y", "z",
      "à", "á", "â", "ã", "ä", "å", "æ", "ç", "è", "é", "ê", "ë", "ì",
      "í", "î", "ï", "ð", "ñ", "ò", "ó", "ô", "õ", "ö", "ø", "ù", "ú",
      "û", "ü", "ý", "þ">>

\* the lower-case form of each capital
LowerOf ==
    [c \in {UpperCase[i] : i \in 1..Len(UpperCase)} |->
        LowerCase[CHOOSE i \in 1..Len(UpperCase) : UpperCase[i] = c]]

LowerChar(c) == IF c \in DOMAIN LowerOf THEN LowerOf[c] ELSE c

\* str.lower()
Lower(s) == [i \in 1..Len(s) |-> LowerChar(s[i])]

\* str.strip(): drops the leading and the trailing run of whitespace
Strip(s) ==
    IF \A i \in 1..Len(s) : s[i] \in Whitespace THEN <<>>
    ELSE LET first == CHOOSE i \in 1..Len(s) :
                          /\ s[i] \notin Whitespace
                          /\ \A j \in 1..(i - 1) : s[j] \in Whitespace
             last == CHOOSE i \in 1..Len(s) :
                          /\ s[i] \notin Whitespace
                          /\ \A j \in (i + 1)..Len(s) : s[j] \in Whitespace
         IN SubSeq(s, first, last)

\* str.startswith(prefix)
StartsWith(s, prefix) ==
    /\ Len(prefix) <= Len(s)
    /\ SubSeq(s, 1, Len(prefix)) = prefix

\* does sub occur in s at the 0-based offset k
OccursAt(sub, s, k) ==
    /\ k >= 0
    /\ k + Len(sub) <= Len(s)
    /\ \A i \in 1..Len(sub) : s[k + i] = sub[i]

\* Python  sub in s
Contains(sub, s) == \E k \in 0..Len(s) : OccursAt(sub, s, k)

(***************************************************************************)
(* Literals of the source                                                  *)
(***************************************************************************)
s_Plugins_updated == <<"P", "l", "u", "g", "i", "n", "s", " ", "u", "p", "d", "a", "t", "e", "d">>
s_Domains_secured == <<"D", "o", "m", "a", "i", "n", "s", " ", "s", "e", "c", "u", "r", "e", "d">>
s_Platform_enhancements ==
    <<"P", "l", "a", "t", "f", "o", "r", "m", " ", "e", "n", "h", "a", "n", "c", "e", "m", "e",
      "n", "t", "s">>
s_Attacks_blocked == <<"A", "t", "t", "a", "c", "k", "s", " ", "b", "l", "o", "c", "k", "e", "d">>
s_Business == <<"B", "u", "s", "i", "n", "e", "s", "s">>
s_Coding == <<"C", "o", "d", "i", "n", "g">>
s_Item == <<"I", "t", "e", "m">>
s_Notes == <<"N", "o", "t", "e", "s">>
s_Status == <<"S", "t", "a", "t", "u", "s">>
s_Corporate == <<"C", "o", "r", "p", "o", "r", "a", "t", "e">>
s_Email_Blocked == <<"E", "m", "a", "i", "l", " ", "B", "l", "o", "c", "k", "e", "d">>
s_BRBL == <<"B", "R", "B", "L">>
s_SPAM == <<"S", "P", "A", "M">>
s_BRTS == <<"B", "R", "T", "S">>
s_Virus == <<"V", "i", "r", "u", "s">>
s_ATP == <<"A", "T", "P">>
s_Payments == <<"P", "a", "y", "m", "e", "n", "t", "s">>
s_Prepaid == <<"P", "r", "e", "p", "a", "i", "d">>
s_SmartCentral == <<"S", "m", "a", "r", "t", "C", "e", "n", "t", "r", "a", "l">>
s_Summary == <<"S", "u", "m", "m", "a", "r", "y">>
s_Blocked_EmailPct == <<"B", "l", "o", "c", "k", "e", "d", " ", "E", "m", "a", "i", "l", "%">>
s_Blocked_ATPPct == <<"B", "l", "o", "c", "k", "e", "d", " ", "A", "T", "P", "%">>
s_Avg_daily_traffic ==
    <<"A", "v", "g", " ", "d", "a", "i", "l", "y", " ", "t", "r", "a", "f", "f", "i", "c">>
s_WPScan_Vulns == <<"W", "P", "S", "c", "a", "n", " ", "V", "u", "l", "n", "s">>
s_Site_WAF == <<"S", "i", "t", "e", " ", "W", "A", "F">>
s_Plugins == <<"P", "l", "u", "g", "i", "n", "s">>
s_Themes == <<"T", "h", "e", "m", "e", "s">>
s_WP_ver == <<"W", "P", " ", "v", "e", "r">>
s_PHP_ver == <<"P", "H", "P", " ", "v", "e", "r">>
s_Total_Data_Transferred ==
    <<"T", "o", "t", "a", "l", " ", "D", "a", "t", "a", " ", "T", "r", "a", "n", "s", "f", "e",
      "r", "r", "e", "d">>
s_Total_Data_DOWNLOADED ==
    <<"T", "o", "t", "a", "l", " ", "D", "a", "t", "a", " ", "-", " ", "D", "O", "W", "N", "L",
      "O", "A", "D", "E", "D">>
s_Total_Data_UPLOADED ==
    <<"T", "o", "t", "a", "l", " ", "D", "a", "t", "a", " ", "-", " ", "U", "P", "L", "O", "A",
      "D", "E", "D">>
s_Total_Unique_Clients ==
    <<"T", "o", "t", "a", "l", " ", "U", "n", "i", "q", "u", "e", " ", "C", "l", "i", "e", "n",
      "t", "s">>
s_Average_of_clients_per_day ==
    <<"A", "v", "e", "r", "a", "g", "e", " ", "o", "f", " ", "c", "l", "i", "e", "n", "t", "s",
      " ", "p", "e", "r", " ", "d", "a", "y">>
s_Average_usage_per_client ==
    <<"A", "v", "e", "r", "a", "g", "e", " ", "u", "s", "a", "g", "e", " ", "p", "e", "r", " ",
      "c", "l", "i", "e", "n", "t">>
s_Top_clients_by_usage ==
    <<"T", "o", "p", " ", "c", "l", "i", "e", "n", "t", "s", " ", "b", "y", " ", "u", "s", "a",
      "g", "e">>
s_Usage == <<"U", "s", "a", "g", "e">>
s_Top_Blocked_Sites_by_URL ==
    <<"T", "o", "p", " ", "B", "l", "o", "c", "k", "e", "d", " ", "S", "i", "t", "e", "s", " ",
      "b", "y", " ", "U", "R", "L">>
s_Category == <<"C", "a", "t", "e", "g", "o", "r", "y">>
s_Sites == <<"S", "i", "t", "e", "s">>
s_Failing_Controls_UGC ==
    <<"F", "a", "i", "l", "i", "n", "g", " ", "C", "o", "n", "t", "r", "o", "l", "s", " ", "-",
      " ", "U", "G", "C">>
s_Failing_Controls_ZenPay ==
    <<"F", "a", "i", "l", "i", "n", "g", " ", "C", "o", "n", "t", "r", "o", "l", "s", " ", "-",
      " ", "Z", "e", "n", "P", "a", "y">>
s_Control_States == <<"C", "o", "n", "t", "r", "o", "l", " ", "S", "t", "a", "t", "e", "s", ":">>
s_UGC == <<"U", "G", "C">>
s_ZenPay == <<"Z", "e", "n", "P", "a", "y">>
s_Resource_States ==
    <<"R", "e", "s", "o", "u", "r", "c", "e", " ", "S", "t", "a", "t", "e", "s", ":">>
s_empty == <<>>
s_foo == <<"f", "o", "o">>
s_bar == <<"b", "a", "r">>
s_sp_business_sp == <<" ", "b", "u", "s", "i", "n", "e", "s", "s", " ">>
s_CODING == <<"C", "O", "D", "I", "N", "G">>
s_Extra == <<"E", "x", "t", "r", "a">>
s_sp_Plugins_updated ==
    <<" ", " ", "P", "l", "u", "g", "i", "n", "s", " ", "u", "p", "d", "a", "t", "e", "d">>
s_Sub == <<"S", "u", "b">>
s_toc_heading ==
    <<"#", " ", "T", "a", "b", "l", "e", " ", "o", "f", " ", "C", "o", "n", "t", "e", "n", "t",
      "s">>
s_rule == <<"-", "-", "-">>
s_end_marker == <<"\n", "\n", "-", "-", "-">>
s_Intro == <<"I", "n", "t", "r", "o", " ", "t", "e", "x", "t">>
s_2_AWS_spaced == <<"2", ".", " ", "A", "W", "S">>
s_3_WPEngine_spaced == <<"3", ".", " ", "W", "P", "E", "n", "g", "i", "n", "e">>
s_x == <<"x">>
s_Azure_and_AWS == <<"1", ".", "A", "z", "u", "r", "e", " ", "2", ".", "A", "W", "S">>
s_AWS_usage == <<"2", ".", "A", "W", "S", " ", "u", "s", "a", "g", "e">>
s_1_Azure == <<"1", ".", "A", "z", "u", "r", "e">>
s_2_AWS == <<"2", ".", "A", "W", "S">>
s_3_WPEngine == <<"3", ".", "W", "P", "E", "n", "g", "i", "n", "e">>
s_4_FraudWatch == <<"4", ".", "F", "r", "a", "u", "d", "W", "a", "t", "c", "h">>
s_5_Cisco == <<"5", ".", "C", "i", "s", "c", "o">>
s_6_Barracuda == <<"6", ".", "B", "a", "r", "r", "a", "c", "u", "d", "a">>
s_7_Websites == <<"7", ".", "W", "e", "b", "s", "i", "t", "e", "s">>
s_8_Summary == <<"8", ".", "S", "u", "m", "m", "a", "r", "y">>
s_indented_toc_heading ==
    <<" ", " ", "#", " ", "T", "a", "b", "l", "e", " ", "o", "f", " ", "C", "o", "n", "t", "e",
      "n", "t", "s">>

wpengine_texts ==
    L(<<s_Plugins_updated, s_Domains_secured, s_Platform_enhancements, s_Attacks_blocked>>)

summary_header == L(<<s_Business, s_Coding, s_Item, s_Notes, s_Status>>)

barracuda_texts ==
    <<
      L(<<s_Corporate, s_Email_Blocked, s_BRBL, s_SPAM, s_BRTS, s_Virus, s_ATP>>),
      L(<<s_Payments, s_Email_Blocked, s_BRBL, s_SPAM, s_BRTS, s_Virus, s_ATP>>),
      L(<<s_Prepaid, s_Email_Blocked, s_BRBL, s_SPAM, s_BRTS, s_Virus, s_ATP>>),
      L(<<s_SmartCentral, s_Email_Blocked, s_BRBL, s_SPAM, s_BRTS, s_Virus, s_ATP>>),
      L(<<s_Summary, s_Email_Blocked, s_BRBL, s_SPAM, s_BRTS, s_Virus, s_ATP, s_Blocked_EmailPct,
        s_Blocked_ATPPct>>)
    >>

websites_texts ==
    <<
      L(<<s_Corporate, s_Avg_daily_traffic, s_WPScan_Vulns, s_Site_WAF, s_Plugins, s_Themes,
        s_WP_ver, s_PHP_ver>>),
      L(<<s_Payments, s_Avg_daily_traffic, s_WPScan_Vulns, s_Site_WAF, s_Plugins, s_Themes,
        s_WP_ver, s_PHP_ver>>),
      L(<<s_Prepaid, s_Avg_daily_traffic, s_WPScan_Vulns, s_Site_WAF, s_Plugins, s_Themes,
        s_WP_ver, s_PHP_ver>>),
      L(<<s_SmartCentral, s_Avg_daily_traffic, s_WPScan_Vulns, s_Site_WAF, s_Plugins, s_Themes,
        s_WP_ver, s_PHP_ver>>)
    >>

cisco_headers ==
    <<
      L(<<s_Total_Data_Transferred, s_Total_Data_DOWNLOADED, s_Total_Data_UPLOADED,
        s_Total_Unique_Clients, s_Average_of_clients_per_day, s_Average_usage_per_client>>),
      L(<<s_Top_clients_by_usage, s_Usage, s_Usage, s_Top_Blocked_Sites_by_URL, s_Category,
        s_Sites>>)
    >>

azure_headers ==
    <<
      L(<<s_Failing_Controls_UGC, s_Failing_Controls_ZenPay>>),
      L(<<s_Control_States, s_UGC, s_ZenPay>>),
      L(<<s_Resource_States, s_UGC, s_ZenPay>>)
    >>

CUSTOM_TEXT ==
    <<s_1_Azure, s_2_AWS, s_3_WPEngine, s_4_FraudWatch, s_5_Cisco, s_6_Barracuda, s_7_Websites,
      s_8_Summary>>

(***************************************************************************)
(* class CS: the category predicates.  A call either returns "True" or     *)
(* "False" or leaves with the exception it names.                          *)
(***************************************************************************)
PyBool(b) == IF b THEN "True" ELSE "False"

\* what  for h in header_texts  yields; a str yields its characters
Items(x) == IF x.t = "str" THEN [i \in 1..Len(x.v) |-> PyStr(<<x.v[i]>>)] ELSE x.v

\* any(h.strip().lower() == expected_header.lower() for h in header_texts)
\* returns True at the first h that matches; an h before it that is no str
\* has no strip() and raises AttributeError.
SummaryFinds(x, expected_header) ==
    \E i \in 1..Len(Items(x)) :
        /\ \A j \in 1..i : Items(x)[j].t = "str"
        /\ Lower(Strip(Items(x)[i].v)) = Lower(expected_header.v)

\* the search for expected_header meets a value that is no str before it
\* meets a match
SummaryMeetsNoStr(x, expected_header) ==
    \E i \in 1..Len(Items(x)) :
        /\ Items(x)[i].t # "str"
        /\ \A j \in 1..(i - 1) :
              /\ Items(x)[j].t = "str"
              /\ Lower(Strip(Items(x)[j].v)) # Lower(expected_header.v)

\* the except branch of is_summary_table is taken and logs: header_texts
\* cannot be iterated (TypeError), or all() reaches an expected header whose
\* search raises AttributeError, every header before it having been found
is_summary_table_logs(x) ==
    \/ x.t \notin {"list", "str"}
    \/ \E k \in 1..Len(summary_header.v) :
          /\ \A m \in 1..(k - 1) : SummaryFinds(x, summary_header.v[m])
          /\ SummaryMeetsNoStr(x, summary_header.v[k])

\* CS.is_summary_table: every exception is caught and turned into False
is_summary_table(x) ==
    IF x.t \notin {"list", "str"} THEN "False"
    ELSE PyBool(\A i \in 1..Len(summary_header.v) : SummaryFinds(x, summary_header.v[i]))

\* CS.is_barracuda_table
is_barracuda_table(x) == PyBool(\E i \in 1..Len(barracuda_texts) : PyEq(x, barracuda_texts[i]))

\* CS.is_websites_table
is_websites_table(x) == PyBool(\E i \in 1..Len(websites_texts) : PyEq(x, websites_texts[i]))

\* CS.is_wpengine_table
is_wpengine_table(x) == PyBool(PyEq(x, wpengine_texts))

\* CS.is_cisco_table
is_cisco_table(x) == PyBool(PyIn(x, cisco_headers))

\* len(header_texts) == 6 and header_texts[3] == ''
azure_other_header(x) ==
    /\ Len(x.v) = 6
    /\ PyEq(Items(x)[4], PyStr(<<>>))

\* CS.is_azure_table: no try/except; len() of a value without a length raises
is_azure_table(x) ==
    IF x.t \notin {"list", "str"} THEN "TypeError"
    ELSE PyBool(PyIn(x, azure_headers) \/ azure_other_header(x))

\* StyleApplier.apply_custom_styles, the if/elif chain over one table's
\* header_texts: the category whose style_*_table is called, "none" when no
\* branch is taken, or the exception that leaves the chain.
Classify_summary_first(x) ==
    IF is_summary_table(x) = "True" THEN "summary"
    ELSE IF is_azure_table(x) = "TypeError" THEN "TypeError"
    ELSE IF is_azure_table(x) = "True" THEN "azure"
    ELSE IF is_wpengine_table(x) = "True" THEN "wpengine"
    ELSE IF is_cisco_table(x) = "True" THEN "cisco"
    ELSE IF is_barracuda_table(x) = "True" THEN "barracuda"
    ELSE IF is_websites_table(x) = "True" THEN "websites"
    ELSE "none"

Classify(x) ==
    IF is_azure_table(x) = "TypeError" THEN "TypeError"
    ELSE IF is_azure_table(x) = "True" THEN "azure"
    ELSE IF is_wpengine_table(x) = "True" THEN "wpengine"
    ELSE IF is_cisco_table(x) = "True" THEN "cisco"
    ELSE IF is_barracuda_table(x) = "True" THEN "barracuda"
    ELSE IF is_websites_table(x) = "True" THEN "websites"
    ELSE IF is_summary_table(x) = "True" THEN "summary"
    ELSE "none"

Predicates == {"azure", "wpengine", "cisco", "barracuda", "websites", "summary"}

\* the call CS.is_<p>_table(x)
CallPredicate(p, x) ==
    CASE p = "azure" -> is_azure_table(x)
      [] p = "wpengine" -> is_wpengine_table(x)
      [] p = "cisco" -> is_cisco_table(x)
      [] p = "barracuda" -> is_barracuda_table(x)
      [] p = "websites" -> is_websites_table(x)
      [] p = "summary" -> is_summary_table(x)


\* the handlers that log during the call CS.is_<p>_table(x): the predicates
\* with a try block compare with == and in, which do not raise; only the
\* search of is_summary_table does
PredicateLogs(p, x) ==
    IF p = "summary" /\ is_summary_table_logs(x) THEN {"is_summary_table"} ELSE {}

\* the handlers that log during the chain: is_summary_table is reached when
\* every predicate before it has returned False
ClassifyLogs(x) ==
    IF /\ is_azure_table(x) = "False"
       /\ is_wpengine_table(x) = "False"
       /\ is_cisco_table(x) = "False"
       /\ is_barracuda_table(x) = "False"
       /\ is_websites_table(x) = "False"
    THEN PredicateLogs("summary", x)
    ELSE {}

(***************************************************************************)
(* The document.  Lengths are in EMU as python-docx holds them; a length   *)
(* of 0 stands for an attribute that is absent (None) as well as for       *)
(* Length(0): the source reads lengths with `x or default`, which does     *)
(* not tell the two apart.  python-docx keeps page sizes, margins and cell  *)
(* widths in twips (twentieths of a point, 635 EMU each): what is read     *)
(* from a document is a multiple of 635, what is written is rounded to     *)
(* one.  The extent of an inline shape is kept in EMU.                     *)
(*                                                                         *)
(*   section   [page_width, top_margin, bottom_margin, left_margin,        *)
(*              right_margin]                                              *)
(*   body      the children of w:body in document order, each a block      *)
(*             [kind, text, breaks, font, rows, alignment]: a paragraph    *)
(*             (kind "p": its text, the number of page-break runs it       *)
(*             holds, the font of its runs) or a table (kind "tbl": its    *)
(*             rows of cells, its alignment)                               *)
(*   cell      [text, width, align, valign, bold, color, font, tcPr]: one  *)
(*             paragraph with one run when text is not empty and no run    *)
(*             otherwise; tcPr is the list of w:shd and border elements    *)
(*             appended to the cell properties                             *)
(*   shape     [type, width, height], an inline shape                      *)
(***************************************************************************)
LEFT_MARGIN == 360000
RIGHT_MARGIN == 360000
TOP_MARGIN == 360000
BOTTOM_MARGIN == 360000
default_width == 7560000
default_margin == 360000

\* Python  x or default  on a length
Or(x, default) == IF x = 0 THEN default ELSE x

\* int(a / n) for n > 0: the quotient truncated towards zero
IntTrunc(a, n) == IF a >= 0 THEN a \div n ELSE -((-a) \div n)

\* a length written to a twips attribute and read back: python-docx stores
\* Length.twips = int(round(emu / 635.0)) and reads Twips(n) = n * 635; the
\* quotient of an integer by 635 is never half-way between two integers
Twips(emu) == ((2 * emu + 635) \div 1270) * 635

Paragraph(text) ==
    [kind |-> "p", text |-> text, breaks |-> 0, font |-> "inherit", rows |-> <<>>,
     alignment |-> "none"]

Table(rows) ==
    [kind |-> "tbl", text |-> <<>>, breaks |-> 0, font |-> "inherit", rows |-> rows,
     alignment |-> "none"]

Cell(text) ==
    [text |-> text, width |-> 0, align |-> "left", valign |-> "none", bold |-> FALSE,
     color |-> "none", font |-> "inherit", tcPr |-> <<>>]

HasRuns(cell) == Len(cell.text) > 0

\* Document.paragraphs / Document.tables: the top-level ones, in document order
Paragraphs(b) == SelectSeq(b, LAMBDA blk : blk.kind = "p")
Tables(b) == SelectSeq(b, LAMBDA blk : blk.kind = "tbl")

(***************************************************************************)
(* DocumentFormatter                                                       *)
(***************************************************************************)
\* set_document_font: every run of every top-level paragraph
set_document_font(b) ==
    [i \in 1..Len(b) |->
        IF b[i].kind = "p" /\ (Len(b[i].text) > 0 \/ b[i].breaks > 0)
        THEN [b[i] EXCEPT !.font = "Open Sans 10pt"]
        ELSE b[i]]

\* set_margins: every section
set_margins(secs, top, bottom, left, right) ==
    [i \in 1..Len(secs) |->
        [secs[i] EXCEPT !.top_margin = Twips(top), !.bottom_margin = Twips(bottom),
                        !.left_margin = Twips(left), !.right_margin = Twips(right)]]

(***************************************************************************)
(* TableStyler                                                             *)
(***************************************************************************)
\* page_width - left_margin - right_margin of autofit_tables_to_window
total_width(section) ==
    Or(section.page_width, default_width) - Or(section.left_margin, default_margin)
        - Or(section.right_margin, default_margin)

\* the loop over row.cells: cell.width and the paragraph alignment
autofit_row(row, total) ==
    [j \in 1..Len(row) |->
        [row[j] EXCEPT !.width = Twips(IntTrunc(total, Len(row))), !.align = "center"]]

\* apply_bold_to_headers: every run of the first row
apply_bold_to_headers(rows) ==
    [rows EXCEPT ![1] =
        [j \in 1..Len(rows[1]) |->
            IF HasRuns(rows[1][j]) THEN [rows[1][j] EXCEPT !.bold = TRUE] ELSE rows[1][j]]]

\* autofit_tables_to_window: every table, from the first section
autofit_tables_to_window(b, secs) ==
    [i \in 1..Len(b) |->
        IF b[i].kind = "tbl"
        THEN [b[i] EXCEPT
                 !.rows = apply_bold_to_headers(
                     [r \in 1..Len(b[i].rows) |->
                         autofit_row(b[i].rows[r], total_width(secs[1]))]),
                 !.alignment = "center"]
        ELSE b[i]]

\* set_cell_background_color: appends a w:shd element
set_cell_background_color(cell, color_str) ==
    [cell EXCEPT !.tcPr = Append(@, [tag |-> "shd", val |-> color_str])]

\* set_font_color: every run of the cell
set_font_color(cell, font_color) ==
    IF HasRuns(cell) THEN [cell EXCEPT !.color = font_color] ELSE cell

\* set_cell_borders: appends the four border elements
set_cell_borders(cell) ==
    [cell EXCEPT !.tcPr = @ \o
        <<[tag |-> "top", val |-> "single"], [tag |-> "left", val |-> "single"],
          [tag |-> "bottom", val |-> "single"], [tag |-> "right", val |-> "single"]>>]

\* the paragraph loops of style_table on one cell: the alignments, and the
\* size, name and bold of every run
centre_cell(cell, is_header_row) ==
    IF HasRuns(cell)
    THEN [cell EXCEPT !.align = "center", !.valign = "center", !.font = "Open Sans 10pt",
                      !.bold = is_header_row]
    ELSE [cell EXCEPT !.align = "center", !.valign = "center"]

\* TableStyler.style_table: every cell is given borders, fill and font colour
\* twice.  The second time the row is compared with table.rows[0], a _Row
\* made for the comparison; python-docx gives _Row no __eq__, so the two are
\* never equal and the content colours are taken for the header row too.
style_table(rows, header_fill, header_font_color, content_fill, content_font_color) ==
    [i \in 1..Len(rows) |->
        [j \in 1..Len(rows[i]) |->
            centre_cell(
                set_font_color(
                    set_cell_background_color(
                        set_cell_borders(
                            centre_cell(
                                set_font_color(
                                    set_cell_background_color(
                                        set_cell_borders(rows[i][j]),
                                        IF i = 1 THEN header_fill ELSE content_fill),
                                    IF i = 1 THEN header_font_color ELSE content_font_color),
                                i = 1)),
                        content_fill),
                    content_font_color),
                i = 1)]]

\* keep_table_together: table._element.get_or_add_tblPr() raises
\* AttributeError (the table element of python-docx has tblPr as a required
\* child and no such method); the except clause logs it, and the table is
\* left as it was
keep_table_together(table) ==
    [table |-> table, logs |-> {"keep_table_together"}]

\* style_table_row
style_table_row(row, fill, font_color) ==
    [j \in 1..Len(row) |->
        set_cell_borders(set_font_color(set_cell_background_color(row[j], fill), font_color))]

\* a variant that counts the header row in the alternation
style_table_alternating_from_header(rows, header_fill, header_font_color, content_fill_1, content_fill_2, content_font_color) ==
    [i \in 1..Len(rows) |->
        IF i = 1 THEN style_table_row(rows[1], header_fill, header_font_color)
        ELSE style_table_row(rows[i],
                             IF (i - 1) % 2 = 0 THEN content_fill_1 ELSE content_fill_2,
                             content_font_color)]

\* style_table_with_alternating_rows
style_table_with_alternating_rows(rows, header_fill, header_font_color, content_fill_1, content_fill_2, content_font_color) ==
    [i \in 1..Len(rows) |->
        IF i = 1 THEN style_table_row(rows[1], header_fill, header_font_color)
        ELSE style_table_row(rows[i],
                             IF (i - 2) % 2 = 0 THEN content_fill_1 ELSE content_fill_2,
                             content_font_color)]

(***************************************************************************)
(* class CS: the colours of each category, and StyleApplier                *)
(***************************************************************************)
StyleOf(cat) ==
    CASE cat = "azure" ->
           [header_fill |-> "0078D7", content_fill_1 |-> "DEEBF7", content_fill_2 |-> "B3C6E7",
            header_font_color |-> "FFFFFF", content_font_color |-> "000000"]
      [] cat = "wpengine" ->
           [header_fill |-> "8DB600", content_fill_1 |-> "ECF0E7", content_fill_2 |-> "D9EAD3",
            header_font_color |-> "FFFFFF", content_font_color |-> "000000"]
      [] cat = "cisco" ->
           [header_fill |-> "86A697", content_fill_1 |-> "ACC6B5", content_fill_2 |-> "CFDED6",
            header_font_color |-> "000000", content_font_color |-> "000000"]
      [] cat = "barracuda" ->
           [header_fill |-> "006888", content_fill_1 |-> "E1EFF6", content_fill_2 |-> "D9E8F2",
            header_font_color |-> "FFFFFF", content_font_color |-> "000000"]
      [] cat = "websites" ->
           [header_fill |-> "7A9DAB", content_fill_1 |-> "A8C0CF", content_fill_2 |-> "D0E1EC",
            header_font_color |-> "000000", content_font_color |-> "000000"]
      [] cat = "summary" ->
           [header_fill |-> "FFBF00", content_fill_1 |-> "FFD700", content_fill_2 |-> "FFECB3",
            header_font_color |-> "000000", content_font_color |-> "000000"]

\* CS.style_table: the header row, then the content rows in turn
CS_style_table(rows, header_fill, header_font_color, content_fill_1, content_fill_2, content_font_color) ==
    [i \in 1..Len(rows) |->
        IF i = 1 THEN style_table_row(rows[1], header_fill, header_font_color)
        ELSE style_table_row(rows[i],
                             IF (i - 2) % 2 = 0 THEN content_fill_1 ELSE content_fill_2,
                             content_font_color)]

\* CS.style_<cat>_table
style_category_table(rows, cat) ==
    style_table_with_alternating_rows(rows, StyleOf(cat).header_fill,
        StyleOf(cat).header_font_color, StyleOf(cat).content_fill_1,
        StyleOf(cat).content_fill_2, StyleOf(cat).content_font_color)

\* [cell.text.strip() for cell in header_cells if cell.text.strip() != '']
HeaderTexts(rows) ==
    L([j \in 1..Len(SelectSeq(rows[1], LAMBDA c : Strip(c.text) # <<>>)) |->
          Strip(SelectSeq(rows[1], LAMBDA c : Strip(c.text) # <<>>)[j].text)])

RECURSIVE StyleTablesFrom(_, _)
\* the loop of apply_custom_styles from block i on; an exception in the chain
\* leaves the loop, and the tables after it are not visited
StyleTablesFrom(b, i) ==
    IF i > Len(b) THEN b
    ELSE IF b[i].kind # "tbl" THEN StyleTablesFrom(b, i + 1)
    ELSE LET cat == Classify(HeaderTexts(b[i].rows))
         IN IF cat = "TypeError" THEN b
            ELSE IF cat = "none" THEN StyleTablesFrom(b, i + 1)
            ELSE StyleTablesFrom(
                     [b EXCEPT ![i].rows = style_category_table(b[i].rows, cat)], i + 1)

\* StyleApplier.apply_custom_styles
apply_custom_styles(b) == StyleTablesFrom(b, 1)

(***************************************************************************)
(* ImageResizer                                                            *)
(*                                                                         *)
(* Python computes the new height in binary64: float(height) / float(width) *)
(* is rounded to 53 significant bits, its product with new_width is        *)
(* rounded again, and round() rounds that float to the nearest integer,    *)
(* a tie to the even one.  A float is held here as [m, e]: the binary      *)
(* digits of its significand, most significant first (none for 0.0), and   *)
(* the exponent of its last digit; its value is m * 2^e.  Long numbers are *)
(* worked on seven binary digits at a time (digits to the base 128), which *)
(* keeps every intermediate value below 2^31 for lengths below 2^24 EMU.   *)
(***************************************************************************)
\* the binary digits of a sequence of digits to the base 128
BitsOfDigits(digs) ==
    [i \in 1..(7 * Len(digs)) |-> (digs[(i - 1) \div 7 + 1] \div 2^(6 - ((i - 1) % 7))) % 2]

\* the digits to the base 128 of binary digits whose number is a multiple of 7
DigitsOfBits(bits) ==
    [k \in 1..(Len(bits) \div 7) |->
        64 * bits[7 * k - 6] + 32 * bits[7 * k - 5] + 16 * bits[7 * k - 4]
            + 8 * bits[7 * k - 3] + 4 * bits[7 * k - 2] + 2 * bits[7 * k - 1] + bits[7 * k]]

\* bits with zeros before them, n digits in all
PadLeft(bits, n) ==
    [i \in 1..n |-> IF i <= n - Len(bits) THEN 0 ELSE bits[i - (n - Len(bits))]]

\* bits without their leading zeros
Significant(bits) ==
    IF \A i \in 1..Len(bits) : bits[i] = 0 THEN <<>>
    ELSE SubSeq(bits, CHOOSE i \in 1..Len(bits) :
                          bits[i] = 1 /\ \A j \in 1..(i - 1) : bits[j] = 0,
                Len(bits))

\* the binary digits of n, 0 <= n < 2^31, most significant first
BitsOf(n) == Significant(BitsOfDigits([i \in 1..5 |-> (n \div 128^(5 - i)) % 128]))

RECURSIVE NumberOf(_)
\* the integer with these digits to the base 128
NumberOf(digs) ==
    IF Len(digs) = 0 THEN 0
    ELSE 128 * NumberOf(SubSeq(digs, 1, Len(digs) - 1)) + digs[Len(digs)]

\* the integer with these binary digits, at most 31
ValueOf(bits) == NumberOf(DigitsOfBits(PadLeft(bits, 35)))

\* the digits of the integer plus one
Increment(bits) ==
    IF \A i \in 1..Len(bits) : bits[i] = 1
    THEN <<1>> \o [i \in 1..Len(bits) |-> 0]
    ELSE LET z == CHOOSE i \in 1..Len(bits) :
                      bits[i] = 0 /\ \A j \in (i + 1)..Len(bits) : bits[j] = 1
         IN [i \in 1..Len(bits) |-> IF i < z THEN bits[i] ELSE IF i = z THEN 1 ELSE 0]

\* the binary64 nearest to bits * 2^e + t, where 0 <= t < 2^e and t > 0 just
\* when sticky; ties go to the even significand
RoundTo53(bits, sticky, e) ==
    IF Len(bits) <= 53 THEN [m |-> bits, e |-> e]
    ELSE LET keep == SubSeq(bits, 1, 53)
             rest == sticky \/ \E i \in 55..Len(bits) : bits[i] = 1
             up == bits[54] = 1 /\ (rest \/ keep[53] = 1)
             m == IF up THEN Increment(keep) ELSE keep
             e2 == e + (Len(bits) - 53)
         IN IF Len(m) = 54 THEN [m |-> SubSeq(m, 1, 53), e |-> e2 + 1]
            ELSE [m |-> m, e |-> e2]

RECURSIVE FracDigits(_, _, _)
\* the first k digits to the base 128 of rem / w, rem < w, and what remains
FracDigits(rem, w, k) ==
    IF k = 0 THEN [digs |-> <<>>, rem |-> rem]
    ELSE LET d == (128 * rem) \div w
             r == FracDigits((128 * rem) % w, w, k - 1)
         IN [digs |-> <<d>> \o r.digs, rem |-> r.rem]

\* float(height) / float(width), for 0 <= height < 2^31 and 0 < width < 2^24:
\* the quotient to 84 binary places, which leaves 60 significant digits or
\* more, rounded
FloatDiv(height, width) ==
    LET f == FracDigits(height % width, width, 12)
    IN RoundTo53(Significant(PadLeft(BitsOf(height \div width), 31)
                                 \o BitsOfDigits(f.digs)),
                 f.rem # 0, -84)

RECURSIVE MulDigits(_, _, _)
\* the digits to the base 128 of digs * n + carry, four more than digs has
MulDigits(digs, n, carry) ==
    IF Len(digs) = 0 THEN [i \in 1..4 |-> (carry \div 128^(4 - i)) % 128]
    ELSE LET t == digs[Len(digs)] * n + carry
         IN Append(MulDigits(SubSeq(digs, 1, Len(digs) - 1), n, t \div 128), t % 128)

\* n * f, for an integer 0 <= n < 2^24
FloatMul(n, f) ==
    RoundTo53(Significant(BitsOfDigits(MulDigits(DigitsOfBits(PadLeft(f.m, 56)), n, 0))),
              FALSE, f.e)

\* round(f), for 0.0 <= f < 2^31
PyRound(f) ==
    IF f.e >= 0 THEN ValueOf(f.m) * 2^f.e
    ELSE IF -f.e > Len(f.m) THEN 0
    ELSE LET n == Len(f.m) + f.e
             whole == ValueOf(SubSeq(f.m, 1, n))
             rest == \E i \in (n + 2)..Len(f.m) : f.m[i] = 1
         IN IF f.m[n + 1] = 1 /\ (rest \/ whole % 2 = 1) THEN whole + 1 ELSE whole

\* aspect_ratio = float(shape.height) / float(shape.width);
\* round(new_width * aspect_ratio), for width > 0 and new_width, height >= 0
RoundScaled(new_width, height, width) ==
    PyRound(FloatMul(new_width, FloatDiv(height, width)))

\* page_width - left_margin - right_margin of autofit_images_to_window
usable_width_emus(section) ==
    Or(section.page_width, default_width) - Or(section.left_margin, default_margin)
        - Or(section.right_margin, default_margin)

IsPicture(shape) == shape.type \in {"PICTURE", "LINKED_PICTURE"}

RECURSIVE ResizeShapes(_, _, _)
\* the loop over doc.inline_shapes for one section, from shape i on:
\* [shapes, raised]; a picture of width 0 raises ZeroDivisionError
ResizeShapes(shps, i, usable) ==
    IF i > Len(shps) THEN [shapes |-> shps, raised |-> FALSE]
    ELSE IF ~IsPicture(shps[i]) THEN ResizeShapes(shps, i + 1, usable)
    ELSE IF shps[i].width = 0 THEN [shapes |-> shps, raised |-> TRUE]
    ELSE ResizeShapes(
             [shps EXCEPT ![i] = [@ EXCEPT !.width = usable,
                                           !.height = RoundScaled(usable, @, shps[i].width)]],
             i + 1, usable)

RECURSIVE ResizeForSections(_, _, _)
\* the loop over doc.sections, from section s on
ResizeForSections(shps, secs, s) ==
    IF s > Len(secs) THEN [shapes |-> shps, raised |-> FALSE]
    ELSE LET r == ResizeShapes(shps, 1, usable_width_emus(secs[s]))
         IN IF r.raised THEN r ELSE ResizeForSections(r.shapes, secs, s + 1)

\* ImageResizer.autofit_images_to_window
autofit_images_to_window(shps, secs) == ResizeForSections(shps, secs, 1)

(***************************************************************************)
(* SectionManager                                                          *)
(***************************************************************************)
RECURSIVE Join(_)
\* '\n'.join(texts)
Join(texts) ==
    IF Len(texts) = 0 THEN <<>>
    ELSE IF Len(texts) = 1 THEN texts[1]
    ELSE texts[1] \o <<"\n">> \o Join(Tail(texts))

\* '\n'.join([p.text for p in self.doc.paragraphs]); a page-break run adds
\* no text to its paragraph
doc_text(b) == Join([i \in 1..Len(Paragraphs(b)) |-> Paragraphs(b)[i].text])

\* the pattern \s*# Table of Contents matches at offset p, taking k blanks
StartMatchesAt(text, p, k) ==
    /\ p + k <= Len(text)
    /\ \A i \in 1..k : text[p + i] \in Whitespace
    /\ OccursAt(s_toc_heading, text, p + k)

\* re.search(start_marker, doc_text): the leftmost match, [found, start, end]
start_match(text) ==
    IF \E p \in 0..Len(text) : \E k \in 0..Len(text) : StartMatchesAt(text, p, k)
    THEN LET p == CHOOSE q \in 0..Len(text) :
                      /\ \E k \in 0..Len(text) : StartMatchesAt(text, q, k)
                      /\ \A r \in 0..(q - 1) :
                             ~\E k \in 0..Len(text) : StartMatchesAt(text, r, k)
             k == CHOOSE j \in 0..Len(text) : StartMatchesAt(text, p, j)
         IN [found |-> TRUE, start |-> p, end |-> p + k + Len(s_toc_heading)]
    ELSE [found |-> FALSE, start |-> -1, end |-> -1]

\* re.search(end_marker, rest, re.MULTILINE): the leftmost match, [found, end]
end_match(rest) ==
    IF Contains(s_end_marker, rest)
    THEN LET p == CHOOSE q \in 0..Len(rest) :
                      /\ OccursAt(s_end_marker, rest, q)
                      /\ \A r \in 0..(q - 1) : ~OccursAt(s_end_marker, rest, r)
         IN [found |-> TRUE, end |-> p + Len(s_end_marker)]
    ELSE [found |-> FALSE, end |-> -1]

\* a variant that looks for the end marker in the whole text
find_toc_section_whole_text(b) ==
    LET text == doc_text(b)
        sm == start_match(text)
        em == IF sm.found THEN end_match(text) ELSE [found |-> FALSE, end |-> -1]
    IN IF sm.found /\ em.found THEN <<sm.start, sm.end + em.end>> ELSE <<-1, -1>>

\* SectionManager._find_toc_section
find_toc_section(b) ==
    LET text == doc_text(b)
        sm == start_match(text)
        em == IF sm.found THEN end_match(SubSeq(text, sm.end + 1, Len(text)))
              ELSE [found |-> FALSE, end |-> -1]
    IN IF sm.found /\ em.found THEN <<sm.start, sm.end + em.end>> ELSE <<-1, -1>>

\* SectionManager.keep_sections_together raises inside its try block:
\* with the markers found, the first paragraph's
\* paragraph._element.getparent().getparent() is the w:document element, of
\* which the paragraph is no child, so index() raises ValueError before any
\* paragraph is changed.  The exception is caught and logged.
keep_sections_together_raises(b) ==
    /\ find_toc_section(b) # <<-1, -1>>
    /\ Len(Paragraphs(b)) > 0

\* SectionManager.keep_sections_together: the document it leaves
keep_sections_together(b) == b

\* paragraph.insert_paragraph_before() with _add_page_break_to_paragraph:
\* a new paragraph with one run that holds a page break
BreakParagraph ==
    [kind |-> "p", text |-> <<>>, breaks |-> 1, font |-> "inherit", rows |-> <<>>,
     alignment |-> "none"]

InsertAt(b, pos, blk) == SubSeq(b, 1, pos - 1) \o <<blk>> \o SubSeq(b, pos, Len(b))

\* title in paragraph.text, for some title
MatchesTitle(text, section_titles) ==
    \E t \in 1..Len(section_titles) : Contains(section_titles[t], text)

RECURSIVE BreakLoop(_, _, _, _, _)
\* the loop of add_page_break_before_section over the paragraphs the
\* document had when the loop began (orig), from block i on; cur is the
\* document with the paragraphs inserted so far.  paragraph_index is the
\* paragraph's present 0-based position among the children of w:body.
BreakLoop(orig, i, cur, toc, section_titles) ==
    IF i > Len(orig) THEN cur
    ELSE IF orig[i].kind # "p" THEN BreakLoop(orig, i + 1, cur, toc, section_titles)
    ELSE LET paragraph_index == i + (Len(cur) - Len(orig)) - 1
         IN IF toc[1] <= paragraph_index /\ paragraph_index <= toc[2]
            THEN BreakLoop(orig, i + 1, cur, toc, section_titles)
            ELSE IF MatchesTitle(orig[i].text, section_titles)
            THEN BreakLoop(orig, i + 1, InsertAt(cur, paragraph_index + 1, BreakParagraph),
                           toc, section_titles)
            ELSE BreakLoop(orig, i + 1, cur, toc, section_titles)

\* a variant that leaves a document alone once it holds a break paragraph
add_page_break_once(b, section_titles) ==
    IF \E i \in 1..Len(b) : b[i].kind = "p" /\ b[i].text = <<>> /\ b[i].breaks >= 1
    THEN b
    ELSE BreakLoop(b, 1, b, find_toc_section(b), section_titles)

\* SectionManager.add_page_break_before_section
add_page_break_before_section(b, section_titles) ==
    BreakLoop(b, 1, b, find_toc_section(b), section_titles)

(***************************************************************************)
(* The documents the pipeline is run on                                    *)
(***************************************************************************)
MaxRuns == 2
ContentRows == 3

Section(page_width, margin) ==
    [page_width |-> page_width, top_margin |-> margin, bottom_margin |-> margin,
     left_margin |-> margin, right_margin |-> margin]

Shape(type, width, height) == [type |-> type, width |-> width, height |-> height]

\* a table of the header row and ContentRows rows of `columns` cells
TableOf(header, columns) ==
    Table(<<[j \in 1..Len(header) |-> Cell(header[j])]>>
          \o [r \in 1..ContentRows |-> [j \in 1..columns |-> Cell(s_x)]])

\* page widths of 1164, 1162, 1167 and 20134 twips, margins of one inch or absent
SectionDocs ==
    <<
      <<Section(739140, 914400)>>,
      <<Section(737870, 0)>>,
      <<Section(0, 0)>>,
      <<Section(737870, 914400), Section(741045, 914400)>>,
      <<Section(12785090, 914400)>>
    >>

ShapeDocs ==
    <<
      <<Shape("PICTURE", 1600, 900)>>,
      <<>>,
      <<Shape("PICTURE", 1600, 900), Shape("LINKED_PICTURE", 300, 400),
        Shape("CHART", 500, 500)>>,
      <<Shape("PICTURE", 16, 1), Shape("PICTURE", 0, 900), Shape("PICTURE", 1600, 900)>>
    >>

TableDocs ==
    <<
      <<TableOf(<<s_foo, s_bar>>, 2), TableOf(<<s_Control_States, s_UGC, s_ZenPay>>, 3)>>,
      <<>>,
      <<TableOf(<<s_foo, s_bar>>, 2)>>,
      <<TableOf(<<s_Plugins_updated, s_Domains_secured, s_Platform_enhancements,
                  s_Attacks_blocked>>, 4)>>,
      <<TableOf(<<s_sp_Plugins_updated, s_Domains_secured, s_Platform_enhancements,
                  s_Attacks_blocked>>, 3)>>,
      <<TableOf(<<s_Business, s_Category, s_Item, s_Notes, s_Status>>, 5)>>,
      <<TableOf(<<s_Business, s_Coding, s_Item, s_Notes, s_Status>>, 5)>>,
      <<TableOf(<<s_sp_business_sp, s_CODING, s_Item, s_Notes, s_Status, s_Extra>>, 6)>>,
      <<TableOf(<<s_Sub, s_UGC, s_ZenPay, s_empty, s_UGC, s_ZenPay>>, 6)>>,
      <<TableOf(<<s_Business, s_Coding, s_Item, s_empty, s_Notes, s_Status>>, 6),
        TableOf(<<s_empty, s_empty>>, 2)>>
    >>

ParagraphDocs ==
    <<
      <<s_Intro, s_AWS_usage, s_x>>,
      <<>>,
      <<s_Intro, s_toc_heading, s_2_AWS, s_empty, s_rule, s_2_AWS>>,
      <<s_toc_heading, s_empty, s_rule, s_2_AWS>>,
      <<s_2_AWS_spaced, s_3_WPEngine_spaced>>,
      <<s_toc_heading, s_2_AWS_spaced, s_empty, s_rule, s_2_AWS_spaced, s_1_Azure>>,
      <<s_Azure_and_AWS, s_8_Summary>>,
      <<s_toc_heading, s_3_WPEngine>>,
      <<s_Intro, s_empty, s_indented_toc_heading, s_empty, s_rule, s_2_AWS, s_empty, s_rule>>,
      <<s_Intro, s_empty, s_rule, s_toc_heading, s_2_AWS, s_empty, s_rule, s_2_AWS>>,
      <<s_empty, s_rule, s_toc_heading, s_toc_heading, s_2_AWS>>
    >>

ParagraphsOf(texts) == [i \in 1..Len(texts) |-> Paragraph(texts[i])]

\* a document: the tables before or after the paragraphs
Doc(secs, shps, texts, tbls, tables_first) ==
    [sections |-> secs, shapes |-> shps, styles |-> "original",
     body |-> IF tables_first THEN tbls \o ParagraphsOf(texts)
              ELSE ParagraphsOf(texts) \o tbls]

Documents ==
    {Doc(SectionDocs[s], ShapeDocs[1], ParagraphDocs[1], TableDocs[t], f) :
        s \in {1, 3, 5}, t \in 1..Len(TableDocs), f \in BOOLEAN}
    \cup {Doc(SectionDocs[s], ShapeDocs[i], ParagraphDocs[1], TableDocs[1], FALSE) :
        s \in 1..Len(SectionDocs), i \in 1..Len(ShapeDocs)}
    \cup {Doc(SectionDocs[1], ShapeDocs[i], ParagraphDocs[p], TableDocs[t], f) :
        i \in {1, 4}, p \in 1..Len(ParagraphDocs), t \in {1, 2}, f \in BOOLEAN}

\* what doc_path holds when it holds no document that can be opened: no
\* file, or a file that is no complete docx
NoDoc == [sections |-> <<>>, shapes |-> <<>>, styles |-> "original", body |-> <<>>]

(***************************************************************************)
(* main and DocxProcessor.post_process_docx: one action per call they      *)
(* make.  The whole body of post_process_docx is one try block: an         *)
(* exception that a callee does not catch itself is logged there and the   *)
(* call returns without saving.  main converts a Markdown file and hands   *)
(* the result to post_process_docx; post_process_docx is also called       *)
(* directly, on the path as it is, by a caller other than main.            *)
(***************************************************************************)
Init ==
    /\ pc = "idle"
    /\ disk = NoDoc
    /\ loaded = NoDoc
    /\ sections = <<>>
    /\ body = <<>>
    /\ shapes = <<>>
    /\ styles = "original"
    /\ runs = 0
    /\ errors = {}
    /\ exc = "none"
    /\ files_converted = FALSE
    /\ caller = "none"
    /\ header_texts = PyNone
    /\ results = [p \in Predicates |-> "unset"]
    /\ category = "unset"

csvars == <<header_texts, results, category>>

\* what subprocess.run(pandoc_command, check=True) does: pandoc exits with 0,
\* pandoc exits with another status (CalledProcessError), or pandoc cannot be
\* started (FileNotFoundError, PermissionError)
PandocOutcomes == {"converted", "CalledProcessError", "FileNotFoundError"}

\* main: MarkdownConverter.convert_md_to_docx on the next Markdown file.
\* pandoc writes the document anew and the path of the docx is returned, or
\* pandoc fails, the error is logged and the path of the Markdown file is
\* returned; either path is truthy, so main goes on to post_process_docx.
\* Only CalledProcessError is caught: when pandoc cannot be started the
\* exception leaves convert_md_to_docx and main, and the program ends.
ConvertMdToDocx ==
    /\ pc = "idle"
    /\ runs < MaxRuns
    /\ caller' = "main"
    /\ \E outcome \in PandocOutcomes :
          CASE outcome = "converted" ->
                 /\ disk' \in Documents
                 /\ pc' = "converted"
                 /\ errors' = {}
                 /\ exc' = "none"
            [] outcome = "CalledProcessError" ->
                 /\ pc' = "not_converted"
                 /\ errors' = {"convert_md_to_docx"}
                 /\ exc' = "none"
                 /\ UNCHANGED disk
            [] outcome = "FileNotFoundError" ->
                 /\ pc' = "main_raised"
                 /\ errors' = {}
                 /\ exc' = "FileNotFoundError"
                 /\ UNCHANGED disk
    /\ UNCHANGED <<sections, body, shapes, styles, loaded, runs, csvars, files_converted>>

\* doc = Document(str(doc_path)).  In main doc_path is what
\* convert_md_to_docx returned: the docx pandoc has just written, or the
\* Markdown file, which is no document.  A direct call is handed the path of
\* the docx, which holds a document once one has been written there.
Load ==
    /\ pc \in {"idle", "converted", "not_converted"}
    /\ runs < MaxRuns
    /\ runs' = runs + 1
    /\ caller' = IF pc = "idle" THEN "direct" ELSE caller
    /\ IF pc = "converted" \/ (pc = "idle" /\ disk # NoDoc)
       THEN /\ pc' = "set_document_font"
            /\ loaded' = disk
            /\ sections' = disk.sections
            /\ body' = disk.body
            /\ shapes' = disk.shapes
            /\ styles' = disk.styles
            /\ errors' = IF pc = "idle" THEN {} ELSE errors
            /\ exc' = "none"
       ELSE /\ pc' = "aborted"
            /\ errors' = (IF pc = "idle" THEN {} ELSE errors) \cup {"post_process_docx"}
            /\ exc' = "PackageNotFoundError"
            /\ UNCHANGED <<loaded, sections, body, shapes, styles>>
    /\ UNCHANGED <<disk, csvars, files_converted>>

SetDocumentFont ==
    /\ pc = "set_document_font"
    /\ body' = set_document_font(body)
    /\ pc' = "set_margins"
    /\ UNCHANGED <<sections, shapes, styles, disk, loaded, runs, errors, csvars, exc, files_converted, caller>>

SetMargins ==
    /\ pc = "set_margins"
    /\ sections' = set_margins(sections, TOP_MARGIN, BOTTOM_MARGIN, LEFT_MARGIN, RIGHT_MARGIN)
    /\ pc' = "modify_document_styles"
    /\ UNCHANGED <<body, shapes, styles, disk, loaded, runs, errors, csvars, exc, files_converted, caller>>

ModifyDocumentStyles ==
    /\ pc = "modify_document_styles"
    /\ styles' = "Open Sans"
    /\ pc' = "autofit_tables_to_window"
    /\ UNCHANGED <<sections, body, shapes, disk, loaded, runs, errors, csvars, exc, files_converted, caller>>

AutofitTables ==
    /\ pc = "autofit_tables_to_window"
    /\ body' = autofit_tables_to_window(body, sections)
    /\ pc' = "apply_custom_styles"
    /\ UNCHANGED <<sections, shapes, styles, disk, loaded, runs, errors, csvars, exc, files_converted, caller>>

ApplyCustomStyles ==
    /\ pc = "apply_custom_styles"
    /\ body' = apply_custom_styles(body)
    /\ pc' = "autofit_images_to_window"
    /\ UNCHANGED <<sections, shapes, styles, disk, loaded, runs, errors, csvars, exc, files_converted, caller>>

\* autofit_images_to_window has no try block of its own
AutofitImages ==
    /\ pc = "autofit_images_to_window"
    /\ shapes' = autofit_images_to_window(shapes, sections).shapes
    /\ IF autofit_images_to_window(shapes, sections).raised
       THEN /\ pc' = "aborted"
            /\ errors' = errors \cup {"post_process_docx"}
            /\ exc' = "ZeroDivisionError"
       ELSE /\ pc' = "keep_sections_together"
            /\ UNCHANGED <<errors, exc>>
    /\ UNCHANGED <<sections, body, styles, disk, loaded, runs, csvars, files_converted, caller>>

KeepSectionsTogether ==
    /\ pc = "keep_sections_together"
    /\ body' = keep_sections_together(body)
    /\ errors' = IF keep_sections_together_raises(body)
                 THEN errors \cup {"keep_sections_together"} ELSE errors
    /\ pc' = "add_page_break_before_section"
    /\ UNCHANGED <<sections, shapes, styles, disk, loaded, runs, csvars, exc, files_converted, caller>>

AddPageBreaks ==
    /\ pc = "add_page_break_before_section"
    /\ body' = add_page_break_before_section(body, CUSTOM_TEXT)
    /\ pc' = "save"
    /\ UNCHANGED <<sections, shapes, styles, disk, loaded, runs, errors, csvars, exc, files_converted, caller>>

\* doc.save(str(doc_path)); writing the file may fail, before the file is
\* opened for writing, which leaves it as it was, or after, which leaves a
\* file that is no complete docx
Save ==
    /\ pc = "save"
    /\ \E written \in BOOLEAN :
          IF written
          THEN /\ disk' = [sections |-> sections, shapes |-> shapes, styles |-> styles,
                           body |-> body]
               /\ pc' = "done"
               /\ UNCHANGED <<errors, exc>>
          ELSE /\ pc' = "aborted"
               /\ errors' = errors \cup {"post_process_docx"}
               /\ exc' = "OSError"
               /\ disk' \in {disk, NoDoc}
    /\ UNCHANGED <<sections, body, shapes, styles, loaded, runs, csvars, files_converted, caller>>

\* post_process_docx returns, after logger.info as after the logger.error
\* of its except clause, and its document goes out of scope; main then sets
\* files_converted
Return ==
    /\ pc \in {"done", "aborted"}
    /\ pc' = "idle"
    /\ files_converted' = (files_converted \/ caller = "main")
    /\ caller' = "none"
    /\ loaded' = NoDoc
    /\ sections' = <<>>
    /\ body' = <<>>
    /\ shapes' = <<>>
    /\ styles' = "original"
    /\ UNCHANGED <<disk, runs, errors, exc, csvars>>

Next ==
    \/ ConvertMdToDocx
    \/ Load
    \/ SetDocumentFont
    \/ SetMargins
    \/ ModifyDocumentStyles
    \/ AutofitTables
    \/ ApplyCustomStyles
    \/ AutofitImages
    \/ KeepSectionsTogether
    \/ AddPageBreaks
    \/ Save
    \/ Return

Spec == Init /\ [][Next]_vars

(***************************************************************************)
(* SpecCS: the operations of CS and TableStyler called one by one, as a    *)
(* caller of the module can: the predicates and the chain applied to one   *)
(* value, and the table operations that the pipeline itself never calls    *)
(* applied to one table.  The values are the literal header rows of the    *)
(* source, near misses of them, and values that are no list of str.        *)
(***************************************************************************)
PredicateInputs ==
    azure_headers \o <<wpengine_texts>> \o cisco_headers \o barracuda_texts
    \o websites_texts \o <<summary_header>> \o
    <<
      L(<<s_Business, s_Category, s_Item, s_Notes, s_Status>>),
      L(<<s_foo, s_bar>>),
      L(<<>>),
      L(<<s_Business, s_Coding, s_Item, s_empty, s_Notes, s_Status>>),
      L(<<s_Sub, s_UGC, s_ZenPay, s_empty, s_UGC, s_ZenPay>>),
      L(<<s_Sub, s_UGC, s_ZenPay, s_foo, s_UGC, s_ZenPay>>),
      L(<<s_sp_business_sp, s_CODING, s_Item, s_Notes, s_Status, s_Extra>>),
      L(<<s_Status, s_Notes, s_Item, s_Coding, s_Business>>),
      L(<<s_Plugins_updated, s_Domains_secured, s_Platform_enhancements>>),
      L(<<s_Plugins_updated, s_Domains_secured, s_Platform_enhancements, s_Attacks_blocked,
          s_Extra>>),
      L(<<s_sp_Plugins_updated, s_Domains_secured, s_Platform_enhancements, s_Attacks_blocked>>),
      PyNone,
      PyInt(6),
      PyStr(s_Coding),
      PyList(<<PyInt(1), PyInt(2), PyInt(3), PyStr(s_empty), PyInt(5), PyInt(6)>>),
      PyList(<<PyStr(s_Business), PyStr(s_Coding), PyStr(s_Item), PyStr(s_Notes), PyStr(s_Status), PyInt(7)>>),
      PyList(<<PyInt(7), PyStr(s_Business), PyStr(s_Coding), PyStr(s_Item), PyStr(s_Notes), PyStr(s_Status)>>),
      PyList(<<PyNone>>)
    >>

InitCS ==
    /\ pc = "cs"
    /\ \E i \in 1..Len(PredicateInputs) : header_texts = PredicateInputs[i]
    /\ results = [p \in Predicates |-> "unset"]
    /\ category = "unset"
    /\ disk = NoDoc
    /\ loaded = NoDoc
    /\ sections = <<>>
    /\ body = <<TableOf(<<s_foo, s_bar>>, 2)>>
    /\ shapes = <<>>
    /\ styles = "original"
    /\ runs = 0
    /\ errors = {}
    /\ exc = "none"
    /\ files_converted = FALSE
    /\ caller = "none"

\* the variables the predicates and the chain leave alone; errors holds the
\* handlers that have logged an error so far
docvars ==
    <<sections, shapes, styles, disk, loaded, runs, exc, files_converted, caller>>

\* the variables the table operations leave alone
restvars ==
    <<pc, header_texts, results, category, sections, shapes, styles, disk, loaded,
      files_converted, caller>>

\* what is handed to CS.style_table as doc_processor: a DocxProcessor, which
\* has no attribute table_styler, or a StyleApplier, which has one
DocProcessors == {"DocxProcessor", "StyleApplier"}

\* the number of calls of the table operations made on the table
MaxCalls == 1

\* the colour scheme handed to the table operations
DirectStyles == {"azure"}

\* one call of a predicate on the value
CallCS(p) ==
    /\ pc = "cs"
    /\ results[p] = "unset"
    /\ results' = [results EXCEPT ![p] = CallPredicate(p, header_texts)]
    /\ errors' = errors \cup PredicateLogs(p, header_texts)
    /\ UNCHANGED <<pc, header_texts, category, body, docvars>>

\* the chain of apply_custom_styles on the value and the table: the branch
\* taken calls CS.style_<cat>_table on the table
ClassifyCS ==
    /\ pc = "cs"
    /\ category = "unset"
    /\ \E cat \in {Classify(header_texts)} :
          /\ category' = cat
          /\ body' = IF cat \in Predicates
                     THEN [body EXCEPT ![1].rows = style_category_table(@, cat)]
                     ELSE body
    /\ errors' = errors \cup ClassifyLogs(header_texts)
    /\ UNCHANGED <<pc, header_texts, results, docvars>>

\* one call of TableStyler.style_table on the table; runs counts the calls made
\* on the table
CallStyleTable ==
    /\ pc = "cs"
    /\ runs < MaxCalls
    /\ runs' = runs + 1
    /\ \E cat \in DirectStyles :
          body' = [body EXCEPT ![1].rows =
                      style_table(@, StyleOf(cat).header_fill, StyleOf(cat).header_font_color,
                                  StyleOf(cat).content_fill_1, StyleOf(cat).content_font_color)]
    /\ UNCHANGED <<errors, exc, restvars>>

\* one call of CS.style_table on the table.  Its first statement reads
\* doc_processor.table_styler, which raises AttributeError to the caller when
\* doc_processor has no such attribute; the table is then as it was
CallCSStyleTable ==
    /\ pc = "cs"
    /\ runs < MaxCalls
    /\ runs' = runs + 1
    /\ \E doc_processor \in DocProcessors, cat \in DirectStyles :
          IF doc_processor = "StyleApplier"
          THEN /\ body' = [body EXCEPT ![1].rows =
                              CS_style_table(@, StyleOf(cat).header_fill,
                                             StyleOf(cat).header_font_color,
                                             StyleOf(cat).content_fill_1,
                                             StyleOf(cat).content_fill_2,
                                             StyleOf(cat).content_font_color)]
               /\ UNCHANGED exc
          ELSE /\ exc' = "AttributeError"
               /\ UNCHANGED body
    /\ UNCHANGED <<errors, restvars>>

\* one call of TableStyler.keep_table_together on the table
CallKeepTableTogether ==
    /\ pc = "cs"
    /\ runs < MaxCalls
    /\ runs' = runs + 1
    /\ body' = [body EXCEPT ![1] = keep_table_together(@).table]
    /\ errors' = errors \cup keep_table_together(body[1]).logs
    /\ UNCHANGED <<exc, restvars>>

NextCS ==
    \/ \E p \in Predicates : CallCS(p)
    \/ ClassifyCS
    \/ CallStyleTable
    \/ CallCSStyleTable
    \/ CallKeepTableTogether

SpecCS == InitCS /\ [][NextCS]_vars


(***************************************************************************)
(* Properties                                                              *)
(***************************************************************************)
\* the priority order of the classifier
Order == <<"azure", "wpengine", "cisco", "barracuda", "websites", "summary">>

\* the positions in Order of the predicates that returned True
Hits == {i \in 1..Len(Order) : results[Order[i]] = "True"}

\* every predicate has been called on the value and has returned
AllReturned == \A p \in Predicates : results[p] \in {"True", "False"}

CategoryHeader == L(<<s_Business, s_Category, s_Item, s_Notes, s_Status>>)

\* C1: once the chain has classified a value on which all six predicates
\* return, the category is that of the first predicate, in the order azure,
\* wpengine, cisco, barracuda, websites, summary, that returned True (so the
\* only one, when exactly one did), and none when none did; the header
\* Plugins updated / Domains secured / Platform enhancements / Attacks blocked
\* is classified wpengine.
C1_FirstMatchWins ==
    (category # "unset" /\ AllReturned) =>
        /\ Hits = {} => category = "none"
        /\ Hits # {} => category = Order[CHOOSE i \in Hits : \A j \in Hits : i <= j]
        /\ \A i \in Hits : Hits = {i} => category = Order[i]
        /\ PyEq(header_texts, wpengine_texts) => category = "wpengine"

C1_Witness ==
    /\ category = "wpengine"
    /\ AllReturned
    /\ Hits = {2}
    /\ PyEq(header_texts, wpengine_texts)

\* C2: the header Business / Category / Item / Notes / Status is classified
\* summary.
C2_CategoryHeaderIsSummary ==
    (category # "unset" /\ PyEq(header_texts, CategoryHeader)) => category = "summary"

\* C4: on every list of strings at most one of the six predicates returns
\* True.
C4_AtMostOnePredicate ==
    (AllReturned /\ IsListOfStr(header_texts)) => Cardinality(Hits) <= 1

\* a value that is no header signature: no list of strings, or an empty one
Malformed(x) == ~IsListOfStr(x) \/ Len(x.v) = 0

\* C5: every predicate returns a boolean on every value, never raising, and
\* returns False on a value that is no list of strings or is empty.
C5_PredicatesTotal ==
    \A p \in Predicates :
        /\ results[p] \in {"unset", "True", "False"}
        /\ Malformed(header_texts) => results[p] # "True"

(***************************************************************************)
(* Properties of a pipeline run                                            *)
(***************************************************************************)
\* the running call is past table width normalization
PastTableAutofit ==
    pc \in {"apply_custom_styles", "autofit_images_to_window", "keep_sections_together",
            "add_page_break_before_section", "save", "done"}

\* the running call is past the image autofit
PastImageAutofit ==
    pc \in {"keep_sections_together", "add_page_break_before_section", "save", "done"}

\* the document the running call loaded was written by an earlier call
LoadedWasProcessed == loaded.styles = "Open Sans"

\* page width - left margin - right margin, the page width being that of A4
\* when the section states none
UsableWidth(section) ==
    (IF section.page_width = 0 THEN default_width ELSE section.page_width)
        - section.left_margin - section.right_margin

RECURSIVE SumWidths(_)
SumWidths(row) == IF Len(row) = 0 THEN 0 ELSE Head(row).width + SumWidths(Tail(row))

\* C3: a table whose header matches no category leaves a pipeline run with
\* every cell as it was loaded (width, fill and borders, alignment, bold,
\* font colour).
C3_UnmatchedTableUntouched ==
    pc = "done" =>
        \A k \in 1..Len(Tables(loaded.body)) :
            Classify(HeaderTexts(Tables(loaded.body)[k].rows)) = "none" =>
                Tables(body)[k].rows = Tables(loaded.body)[k].rows

\* C6: styling a table that was styled before leaves every cell as it was:
\* the same shading and border elements and the same font colour.
C6_StyleIdempotent ==
    (pc = "autofit_images_to_window" /\ LoadedWasProcessed) =>
        \A k \in 1..Len(Tables(body)) :
            \A r \in 1..Len(Tables(body)[k].rows) :
                \A j \in 1..Len(Tables(body)[k].rows[r]) :
                    /\ Tables(body)[k].rows[r][j].tcPr = Tables(loaded.body)[k].rows[r][j].tcPr
                    /\ Tables(body)[k].rows[r][j].color = Tables(loaded.body)[k].rows[r][j].color

\* C7: after table width normalization every cell of a row of n cells is
\* within one rounding unit of usable_width / n, usable_width being that of
\* the first section, and the widths of a row add up to at most
\* usable_width; a usable width of 19000 gives the cells of a row of two
\* 9500 each.  Widths are stored in twentieths of a point (635 EMU), which
\* is the rounding unit; 19000 and 9500 of them are 12065000 and 6032500 EMU.
C7_CellWidths ==
    PastTableAutofit =>
        \A k \in 1..Len(Tables(body)) :
            \A r \in 1..Len(Tables(body)[k].rows) :
                LET row == Tables(body)[k].rows[r]
                    n == Len(row)
                    usable_width == UsableWidth(sections[1])
                IN /\ \A j \in 1..n :
                          /\ n * row[j].width >= usable_width - n * 635
                          /\ n * row[j].width <= usable_width + n * 635
                          /\ (usable_width = 12065000 /\ n = 2) => row[j].width = 6032500
                   /\ SumWidths(row) <= usable_width

\* a paragraph that holds nothing but page breaks
IsBreakParagraph(blk) == blk.kind = "p" /\ blk.text = <<>> /\ blk.breaks >= 1

RECURSIVE PrecedingBreaks(_, _)
\* the number of break paragraphs directly before block q of b
PrecedingBreaks(b, q) ==
    IF q > 1 /\ IsBreakParagraph(b[q - 1]) THEN 1 + PrecedingBreaks(b, q - 1) ELSE 0

\* the positions in b of the paragraphs that contain a configured title
TitlePositions(b) ==
    SelectSeq([i \in 1..Len(b) |-> i],
              LAMBDA i : b[i].kind = "p" /\ MatchesTitle(b[i].text, CUSTOM_TEXT))

RECURSIVE TextOffset(_, _)
\* the offset in doc_text(b) at which the text of the paragraph at block i begins
TextOffset(b, i) ==
    IF i = 1 THEN 0
    ELSE TextOffset(b, i - 1) + (IF b[i - 1].kind = "p" THEN Len(b[i - 1].text) + 1 ELSE 0)

\* the paragraph at block i of b begins inside the TOC interval of b
InToc(b, i) ==
    /\ find_toc_section(b)[1] <= TextOffset(b, i)
    /\ TextOffset(b, i) < find_toc_section(b)[2]

\* the block of body that block i of the loaded document has become, when the
\* loaded document holds no break paragraph: the i-th block of body that is
\* no break paragraph
ImageOf(i) ==
    CHOOSE q \in 1..Len(body) :
        /\ ~IsBreakParagraph(body[q])
        /\ Cardinality({r \in 1..q : ~IsBreakParagraph(body[r])}) = i

\* the paragraph loaded as block i has been given a page break: a break
\* paragraph before it, or a page-break run of its own
ReceivedBreak(i) ==
    \/ PrecedingBreaks(body, ImageOf(i)) >= 1
    \/ body[ImageOf(i)].breaks > loaded.body[i].breaks

\* the paragraph is one the section rules are about: it contains a configured
\* title, or begins with one of the two prefixes of keep_sections_together
IsSectionParagraph(blk) ==
    \/ MatchesTitle(blk.text, CUSTOM_TEXT)
    \/ StartsWith(blk.text, s_2_AWS_spaced)
    \/ StartsWith(blk.text, s_3_WPEngine_spaced)

\* C8: with the TOC markers present, once the section rules have run no
\* paragraph that begins inside the TOC interval has been given a page break,
\* and every section paragraph that begins outside it has.
C8_TocExclusion ==
    (pc = "save" /\ ~LoadedWasProcessed /\ find_toc_section(loaded.body) # <<-1, -1>>) =>
        \A i \in 1..Len(loaded.body) :
            loaded.body[i].kind = "p" =>
                /\ InToc(loaded.body, i) => ~ReceivedBreak(i)
                /\ (~InToc(loaded.body, i) /\ IsSectionParagraph(loaded.body[i]))
                       => ReceivedBreak(i)

\* C9 as claimed: a run on a document that an earlier run has processed adds
\* no break paragraph: every paragraph that contains a configured title is
\* preceded by as many break paragraphs as when the run loaded it.
C9_NoNewBreaksOnRerun ==
    (pc = "save" /\ LoadedWasProcessed) =>
        \A k \in 1..Len(TitlePositions(loaded.body)) :
            PrecedingBreaks(body, TitlePositions(body)[k])
                = PrecedingBreaks(loaded.body, TitlePositions(loaded.body)[k])

\* C9 as amended: breaks accumulate.  A run never removes a break paragraph
\* and adds at most one directly before each paragraph that contains a
\* configured title, whether or not one precedes it already; a run whose TOC
\* locator finds no interval in the document it loads adds exactly one before
\* each, so that a second such run leaves two.
C9_BreaksAccumulate ==
    pc = "save" =>
        /\ Len(TitlePositions(body)) = Len(TitlePositions(loaded.body))
        /\ \A k \in 1..Len(TitlePositions(loaded.body)) :
              LET before == PrecedingBreaks(loaded.body, TitlePositions(loaded.body)[k])
                  after == PrecedingBreaks(body, TitlePositions(body)[k])
              IN /\ after \in {before, before + 1}
                 /\ find_toc_section(loaded.body) = <<-1, -1>> => after = before + 1

C9_Witness ==
    /\ pc = "save"
    /\ runs = 2
    /\ LoadedWasProcessed
    /\ find_toc_section(loaded.body) = <<-1, -1>>
    /\ \E k \in 1..Len(TitlePositions(body)) :
          /\ PrecedingBreaks(loaded.body, TitlePositions(loaded.body)[k]) = 1
          /\ PrecedingBreaks(body, TitlePositions(body)[k]) = 2

\* C10: after the image autofit every picture is as wide as the usable width
\* of the first section and as high as that width scaled by the aspect ratio
\* it was loaded with, rounded; a picture of 1600 x 900 and a usable width of
\* 18000 give 18000 x 10125.
C10_ImagesFitFirstSection ==
    PastImageAutofit =>
        \A i \in 1..Len(shapes) :
            IsPicture(shapes[i]) =>
                /\ shapes[i].width = UsableWidth(sections[1])
                /\ shapes[i].height = RoundScaled(UsableWidth(sections[1]),
                                                  loaded.shapes[i].height,
                                                  loaded.shapes[i].width)
                /\ RoundScaled(18000, 900, 1600) = 10125

(***************************************************************************)
(* Failures of a stage                                                     *)
(***************************************************************************)
ZeroWidthPicture(shape) == IsPicture(shape) /\ shape.width = 0

\* C11: the image autofit, run on a document that holds an inline picture of
\* width zero, does not raise; it leaves that picture's size as it was and
\* rescales every other picture to the usable width of a section.
C11_ZeroWidthImageSkipped ==
    [][(/\ pc = "autofit_images_to_window"
        /\ \E i \in 1..Len(shapes) : ZeroWidthPicture(shapes[i]))
       => /\ pc' = "keep_sections_together"
          /\ exc' = "none"
          /\ Len(shapes') = Len(shapes)
          /\ \A i \in 1..Len(shapes) :
                /\ ZeroWidthPicture(shapes[i]) => shapes'[i] = shapes[i]
                /\ (IsPicture(shapes[i]) /\ shapes[i].width > 0) =>
                      \E s \in 1..Len(sections) :
                          shapes'[i].width = UsableWidth(sections[s])]_vars

\* the stages of a run between Load and Save
StagesBeforeSave ==
    {"set_document_font", "set_margins", "modify_document_styles", "autofit_tables_to_window",
     "apply_custom_styles", "autofit_images_to_window", "keep_sections_together",
     "add_page_break_before_section"}

\* C12: no stage between Load and Save aborts the run: whatever happens in
\* it, an exception included, the run goes on to a later stage or to Save,
\* and no exception reaches the except clause of post_process_docx.
C12_StageFailureDoesNotAbort ==
    [][(pc \in StagesBeforeSave) =>
          (pc' \in StagesBeforeSave \cup {"save"} /\ exc' = "none")]_vars

(***************************************************************************)
(* The order of the stages                                                 *)
(***************************************************************************)
\* this step begins the stage
Begins(stage) == pc' = stage /\ pc # stage

\* C13: the stages run in the order Load, Classify+Style, Section-Breaks,
\* Image-Autofit, Save: the section breaks begin when the styling completes,
\* the image autofit when the section breaks complete, and Save when the image
\* autofit completes.
C13_SectionBreaksBeforeImages ==
    [][/\ Begins("keep_sections_together") => pc = "apply_custom_styles"
       /\ Begins("autofit_images_to_window") => pc = "add_page_break_before_section"
       /\ Begins("save") => pc = "autofit_images_to_window"]_vars

\* C14: a call whose doc.save failed does not return to main as a call that
\* saved does, and main does not set files_converted for it.
C14_SaveFailureSurfaced ==
    [][(pc = "aborted" /\ exc = "OSError" /\ pc' # pc) =>
          (pc' # "idle" /\ files_converted' = files_converted)]_vars

(***************************************************************************)
(* Classification and styling in a pipeline run                            *)
(***************************************************************************)
\* the fill colours of the w:shd elements a cell holds
Fills(cell) == {cell.tcPr[n].val : n \in {m \in 1..Len(cell.tcPr) : cell.tcPr[m].tag = "shd"}}

\* a header row of exactly six cells, the fourth empty after trimming
AzureShape(rows) == Len(rows[1]) = 6 /\ Strip(rows[1][4].text) = <<>>

\* C15: once the pipeline has classified and styled the tables, a table whose
\* header row has exactly six cells, the fourth empty after trimming, has been
\* classified azure: its header cells carry the azure header fill.
C15_PositionalAzure ==
    pc = "autofit_images_to_window" =>
        \A k \in 1..Len(Tables(body)) :
            AzureShape(Tables(body)[k].rows) =>
                /\ Classify(HeaderTexts(Tables(body)[k].rows)) = "azure"
                /\ \A j \in 1..6 :
                      Fills(Tables(body)[k].rows[1][j]) = {StyleOf("azure").header_fill}

(***************************************************************************)
(* The TOC interval                                                        *)
(***************************************************************************)
\* the offsets in text at which the heading of the start marker occurs
HeadingOffsets(text) == {h \in 0..Len(text) : OccursAt(s_toc_heading, text, h)}

\* the offsets, from e on, at which the end marker occurs
EndMarkerOffsets(text, e) == {q \in e..Len(text) : OccursAt(s_end_marker, text, q)}

Least(S) == CHOOSE x \in S : \A y \in S : x <= y

\* the offset at which the whitespace directly before offset h begins
WhitespaceStart(text, h) ==
    Least({p \in 0..h : \A i \in (p + 1)..h : text[i] \in Whitespace})

\* C16: on the text of every document the locator returns (-1, -1) exactly
\* when the text holds no start marker or no end marker after the end of the
\* first start marker; otherwise it returns the offset at which the first
\* start marker begins (its leading whitespace included) and the offset at
\* which the first end marker after it ends.
C16_TocInterval ==
    LET text == doc_text(body)
        H == HeadingOffsets(text)
        e == Least(H) + Len(s_toc_heading)
        Q == EndMarkerOffsets(text, e)
    IN IF H = {} \/ Q = {}
       THEN find_toc_section(body) = <<-1, -1>>
       ELSE find_toc_section(body) =
                <<WhitespaceStart(text, Least(H)), Least(Q) + Len(s_end_marker)>>

\* the locator finds the interval of a document whose heading is indented
\* and follows two empty lines, and which holds two end markers
C16_Witness ==
    /\ pc = "add_page_break_before_section"
    /\ HeadingOffsets(doc_text(body)) = {14}
    /\ Cardinality(EndMarkerOffsets(doc_text(body), 0)) = 2
    /\ find_toc_section(body) = <<10, 38>>

(***************************************************************************)
(* The colours of a styled table                                           *)
(***************************************************************************)
\* the cell holds a single-line border element for each of its four sides
HasSingleBorders(cell) ==
    \A side \in {"top", "left", "bottom", "right"} :
        \E n \in 1..Len(cell.tcPr) : cell.tcPr[n] = [tag |-> side, val |-> "single"]

\* the cell has this fill, and its runs this font colour
HasColours(cell, fill, font_color) ==
    /\ Fills(cell) = {fill}
    /\ HasRuns(cell) => cell.color = font_color

\* C19: the styling stage leaves every table it styles for a category with
\* the header fill and header font colour of the category in row 0, with the
\* first content fill in the content rows i (i >= 1, counted from 0) for
\* which (i - 1) mod 2 = 0 and the second in the others, with the content
\* font colour in all content rows, and with single-line borders on the four
\* sides of every cell; it changes no cell of a table it does not style.
C19_StyledTable ==
    [][(pc = "apply_custom_styles" /\ pc' = "autofit_images_to_window") =>
          \A k \in 1..Len(Tables(body)) :
              LET cat == Classify(HeaderTexts(Tables(body)[k].rows))
                  styled == Tables(body')[k].rows
              IN IF cat = "none" THEN Tables(body')[k] = Tables(body)[k]
                 ELSE \A i \in 0..(Len(styled) - 1) : \A j \in 1..Len(styled[i + 1]) :
                          /\ HasSingleBorders(styled[i + 1][j])
                          /\ i = 0 => HasColours(styled[1][j], StyleOf(cat).header_fill,
                                                 StyleOf(cat).header_font_color)
                          /\ (i >= 1 /\ (i - 1) % 2 = 0) =>
                                 HasColours(styled[i + 1][j], StyleOf(cat).content_fill_1,
                                            StyleOf(cat).content_font_color)
                          /\ (i >= 1 /\ (i - 1) % 2 # 0) =>
                                 HasColours(styled[i + 1][j], StyleOf(cat).content_fill_2,
                                            StyleOf(cat).content_font_color)]_vars

\* an azure table has been styled, with its three content rows in the first,
\* the second and the first content fill, next to a table left without style
C19_Witness ==
    /\ pc = "autofit_images_to_window"
    /\ \E k \in 1..Len(Tables(body)) :
          /\ Classify(HeaderTexts(Tables(body)[k].rows)) = "azure"
          /\ HasColours(Tables(body)[k].rows[1][1], "0078D7", "FFFFFF")
          /\ HasColours(Tables(body)[k].rows[2][1], "DEEBF7", "000000")
          /\ HasColours(Tables(body)[k].rows[3][1], "B3C6E7", "000000")
          /\ HasColours(Tables(body)[k].rows[4][1], "DEEBF7", "000000")
          /\ HasSingleBorders(Tables(body)[k].rows[4][3])
    /\ \E k \in 1..Len(Tables(body)) : Tables(body)[k].rows[1][1].tcPr = <<>>

(***************************************************************************)
(* The paragraphs the section rules insert                                 *)
(***************************************************************************)
RECURSIVE WithBreaksBefore(_, _, _)
\* the blocks of b from block i on, with one new break paragraph directly
\* before each block whose position is in S, and nothing else changed
WithBreaksBefore(b, S, i) ==
    IF i > Len(b) THEN <<>>
    ELSE (IF i \in S THEN <<BreakParagraph>> ELSE <<>>) \o <<b[i]>>
             \o WithBreaksBefore(b, S, i + 1)

\* the positions in b of the paragraphs that contain a configured title and
\* begin outside the TOC interval of b
TitlesOutsideToc(b) ==
    {i \in 1..Len(b) :
        b[i].kind = "p" /\ MatchesTitle(b[i].text, CUSTOM_TEXT) /\ ~InToc(b, i)}

\* C17: one pass of add_page_break_before_section leaves the document it
\* found with one new paragraph, holding one page break and no text, directly
\* before each paragraph that contains a configured title and lies outside
\* the TOC interval, however many titles it contains; new paragraphs are
\* inserted only before paragraphs, at most one before each, and no block the
\* pass found is changed.
C17_OneBreakPerTitleParagraph ==
    [][(pc = "add_page_break_before_section" /\ pc' = "save") =>
          \E S \in SUBSET {i \in 1..Len(body) : body[i].kind = "p"} :
              /\ TitlesOutsideToc(body) \subseteq S
              /\ body' = WithBreaksBefore(body, S, 1)]_vars

\* the paragraph begins with one of the two prefixes of keep_sections_together
HasSectionPrefix(blk) ==
    blk.kind = "p" /\ (StartsWith(blk.text, s_2_AWS_spaced)
                       \/ StartsWith(blk.text, s_3_WPEngine_spaced))

\* C18: once keep_sections_together has run, every paragraph that begins with
\* "2. AWS" or "3. WPEngine" and does not begin inside the TOC interval has
\* been given a page break, also in a document without TOC markers, where no
\* paragraph is inside the interval.
C18_KeepSectionsTogether ==
    pc = "add_page_break_before_section" =>
        \A i \in 1..Len(loaded.body) :
            (HasSectionPrefix(loaded.body[i]) /\ ~InToc(loaded.body, i)) =>
                \/ body[i].breaks > loaded.body[i].breaks
                \/ PrecedingBreaks(body, i) > PrecedingBreaks(loaded.body, i)
====
